---- MODULE Spec2Model ----
\* Model of visualize.py: the linear rescaling closure built by rescale() and
\* the rendering pass visualize(), which filters a frequency distribution by
\* part-of-speech tag and sizes every term by its frequency.
EXTENDS Integers, Sequences, FiniteSets, TLC

\* ---- bounds of the explored inputs ----
MaxTerms == 3      \* entries of a frequency distribution
MaxLen1 == 3       \* length of range1
MaxLen2 == 2       \* length of range2
MaxCalls == 3      \* calls of one resize closure


\* ---------------------------------------------------------------------------
\* Python arithmetic of line 74.  `/` is true division and yields an IEEE 754
\* binary64 float; `+ min2` adds an int to that float.  A float is modelled
\* bit for bit as (-1)^sign * mant * 2^exp with a 53-bit mant; the mantissa
\* is a natural number kept as a little-endian sequence of 15-bit limbs.
\* ---------------------------------------------------------------------------
LimbBits == 15
Limb == 2^LimbBits

RECURSIVE BigNorm(_)
BigNorm(x) ==
    IF x = <<>> THEN <<>>
    ELSE IF x[Len(x)] = 0 THEN BigNorm(SubSeq(x, 1, Len(x) - 1)) ELSE x

RECURSIVE BigFromNat(_)
BigFromNat(n) == IF n = 0 THEN <<>> ELSE <<n % Limb>> \o BigFromNat(n \div Limb)

RECURSIVE BigAddC(_, _, _)
BigAddC(x, y, c) ==
    IF x = <<>> /\ y = <<>> THEN (IF c = 0 THEN <<>> ELSE <<c>>)
    ELSE LET a == IF x = <<>> THEN 0 ELSE Head(x)
             b == IF y = <<>> THEN 0 ELSE Head(y)
             s == a + b + c
         IN  <<s % Limb>> \o BigAddC(IF x = <<>> THEN <<>> ELSE Tail(x),
                                     IF y = <<>> THEN <<>> ELSE Tail(y),
                                     s \div Limb)

BigAdd(x, y) == BigAddC(x, y, 0)

RECURSIVE BigSubB(_, _, _)
BigSubB(x, y, b) ==
    IF x = <<>> THEN <<>>
    ELSE LET s == Head(x) - (IF y = <<>> THEN 0 ELSE Head(y)) - b
         IN  <<(s + Limb) % Limb>> \o BigSubB(Tail(x),
                                              IF y = <<>> THEN <<>> ELSE Tail(y),
                                              IF s < 0 THEN 1 ELSE 0)

\* x - y for x >= y
BigSub(x, y) == BigNorm(BigSubB(x, y, 0))

\* -1, 0, 1 as x < y, x = y, x > y (both normalised)
BigCmp(x, y) ==
    IF Len(x) # Len(y) THEN (IF Len(x) < Len(y) THEN -1 ELSE 1)
    ELSE LET diff == {i \in 1..Len(x) : x[i] # y[i]}
         IN  IF diff = {} THEN 0
             ELSE LET top == CHOOSE i \in diff : \A j \in diff : j <= i
                  IN  IF x[top] < y[top] THEN -1 ELSE 1

RECURSIVE NatBitLen(_)
NatBitLen(n) == IF n = 0 THEN 0 ELSE 1 + NatBitLen(n \div 2)

BigBitLen(x) == IF x = <<>> THEN 0 ELSE (Len(x) - 1) * LimbBits + NatBitLen(x[Len(x)])

RECURSIVE BigMulSmallC(_, _, _)
BigMulSmallC(x, m, c) ==
    IF x = <<>> THEN (IF c = 0 THEN <<>> ELSE <<c>>)
    ELSE LET p == Head(x) * m + c
         IN  <<p % Limb>> \o BigMulSmallC(Tail(x), m, p \div Limb)

\* x * 2^k
BigShl(x, k) ==
    IF x = <<>> THEN <<>>
    ELSE [i \in 1..(k \div LimbBits) |-> 0] \o BigMulSmallC(x, 2^(k % LimbBits), 0)

\* long division of x by a divisor d < Limb, most significant limb first
RECURSIVE BigDivSmallR(_, _, _, _)
BigDivSmallR(x, d, r, q) ==
    IF x = <<>> THEN [q |-> BigNorm(q), r |-> r]
    ELSE LET cur == r * Limb + x[Len(x)]
         IN  BigDivSmallR(SubSeq(x, 1, Len(x) - 1), d, cur % d, <<cur \div d>> \o q)

BigDivSmall(x, d) == BigDivSmallR(x, d, 0, <<>>)

\* floor(x / 2^k) and whether a 1 bit was shifted out
BigShr(x, k) ==
    LET nl   == k \div LimbBits
        low  == SubSeq(x, 1, IF nl < Len(x) THEN nl ELSE Len(x))
        rest == SubSeq(x, nl + 1, Len(x))
        dv   == BigDivSmall(rest, 2^(k % LimbBits))
    IN  [q |-> dv.q, sticky |-> dv.r # 0 \/ \E i \in 1..Len(low) : low[i] # 0]

\* ---- IEEE 754 binary64 values: (-1)^sign * mant * 2^exp, mant of 53 bits ----
MantBits == 53
FZero == [sign |-> 0, mant |-> <<>>, exp |-> 0]

\* round big * 2^exp (plus a nonzero tail below the last bit when sticky)
\* to the nearest binary64, ties to even
FRound(sign, big, exp, sticky) ==
    LET n == BigBitLen(big)
    IN  IF n = 0 THEN FZero
        ELSE IF n <= MantBits
        THEN [sign |-> sign, mant |-> BigShl(big, MantBits - n), exp |-> exp - (MantBits - n)]
        ELSE LET k     == n - MantBits
                 sh    == BigShr(big, k - 1)
                 guard == sh.q[1] % 2
                 m0    == BigShr(sh.q, 1).q
                 up    == guard = 1 /\ (sh.sticky \/ sticky \/ m0[1] % 2 = 1)
                 m1    == IF up THEN BigAdd(m0, <<1>>) ELSE m0
             IN  IF BigBitLen(m1) > MantBits
                 THEN [sign |-> sign, mant |-> BigShr(m1, 1).q, exp |-> exp + k + 1]
                 ELSE [sign |-> sign, mant |-> m1, exp |-> exp + k]

Abs(i) == IF i < 0 THEN -i ELSE i

\* float(i)
FFromInt(i) == FRound(IF i < 0 THEN 1 ELSE 0, BigFromNat(Abs(i)), 0, FALSE)

FNeg(x) == IF x.mant = <<>> THEN x ELSE [x EXCEPT !.sign = 1 - x.sign]

\* x + y
FAdd(x, y) ==
    IF x.mant = <<>> THEN y
    ELSE IF y.mant = <<>> THEN x
    ELSE LET e  == IF x.exp < y.exp THEN x.exp ELSE y.exp
             bx == BigShl(x.mant, x.exp - e)
             by == BigShl(y.mant, y.exp - e)
             c  == BigCmp(bx, by)
         IN  IF x.sign = y.sign THEN FRound(x.sign, BigAdd(bx, by), e, FALSE)
             ELSE IF c = 0 THEN FZero
             ELSE IF c > 0 THEN FRound(x.sign, BigSub(bx, by), e, FALSE)
             ELSE FRound(y.sign, BigSub(by, bx), e, FALSE)

FSub(x, y) == FAdd(x, FNeg(y))

\* x / d for a float x and a nonzero int d (converted to float exactly)
GuardShift == 30
FDivInt(x, d) ==
    LET dv == BigDivSmall(BigShl(x.mant, GuardShift), Abs(d))
    IN  FRound(IF d < 0 THEN 1 - x.sign ELSE x.sign, dv.q, x.exp - GuardShift, dv.r # 0)

\* n / d for ints (true division)
TrueDiv(n, d) == FDivInt(FFromInt(n), d)

FLe(x, y) == LET df == FSub(x, y) IN df.mant = <<>> \/ df.sign = 1
FLt(x, y) == LET df == FSub(x, y) IN df.mant # <<>> /\ df.sign = 1

\* ---------------------------------------------------------------------------
\* Static data
\* ---------------------------------------------------------------------------
Pos(tag, name) == [tag |-> tag, name |-> name]
Color(hex, name) == [hex |-> hex, name |-> name]
Entry(pos, color) == [pos |-> pos, color |-> color]

\* the dict literal COLOR, in insertion order
ColorTable ==
    << Entry(Pos("ADJ", "Adjective"), Color("#4E8975", "seagreen")),
       Entry(Pos("ADP", "Adposition"), Color("#A52A2A", "brown")),
       Entry(Pos("ADV", "Adverb"), Color("#32CD32", "limegreen")),
       Entry(Pos("AUX", "Auxiliary verb"), Color("#0000FF", "blue")),
       Entry(Pos("CONJ", "Coordinating conjunction"), Color("#ff4500", "orangered")),
       Entry(Pos("DET", "Determiner"), Color("#c0c0c0", "silver")),
       Entry(Pos("INTJ", "Interjection"), Color("#493D26", "mocha")),
       Entry(Pos("NOUN", "Noun"), Color("#FFA500", "orange")),
       Entry(Pos("NUM", "Numeral"), Color("#6698FF", "skyblue")),
       Entry(Pos("PART", "Particle"), Color("#FF00FF", "magenta")),
       Entry(Pos("PRON", "Pronoun"), Color("#FF0000", "red")),
       Entry(Pos("PROPN", "Proper noun"), Color("#8D38C9", "violet")),
       Entry(Pos("PUNCT", "Punctuation"), Color("#008080", "teal")),
       Entry(Pos("SCONJ", "Subordinating conjunction"), Color("#EDDA74", "goldenrod")),
       Entry(Pos("SYM", "Symbol"), Color("#808000", "olive")),
       Entry(Pos("VERB", "Verb"), Color("#800080", "purple")),
       Entry(Pos("X", "Other"), Color("#000000", "black")) >>

\* ---------------------------------------------------------------------------
\* Builtins used by rescale and visualize
\* ---------------------------------------------------------------------------
Elems(s) == {s[i] : i \in 1..Len(s)}

\* min(seq), max(seq) of a non-empty sequence; every element is compared
\* once (the scan is split in halves to keep the evaluation shallow)
RECURSIVE MinOf(_, _, _)
MinOf(s, lo, hi) ==
    IF lo = hi THEN s[lo]
    ELSE LET mid == (lo + hi) \div 2
             a   == MinOf(s, lo, mid)
             b   == MinOf(s, mid + 1, hi)
         IN  IF b < a THEN b ELSE a
RECURSIVE MaxOf(_, _, _)
MaxOf(s, lo, hi) ==
    IF lo = hi THEN s[lo]
    ELSE LET mid == (lo + hi) \div 2
             a   == MaxOf(s, lo, mid)
             b   == MaxOf(s, mid + 1, hi)
         IN  IF b > a THEN b ELSE a

min(s) == MinOf(s, 1, Len(s))
max(s) == MaxOf(s, 1, Len(s))

\* range(lo, hi)
range(lo, hi) == [i \in 1..(IF hi > lo THEN hi - lo ELSE 0) |-> lo + i - 1]

RECURSIVE Insert(_, _)
Insert(s, x) ==
    IF s = <<>> THEN <<x>>
    ELSE IF x < Head(s) THEN <<x>> \o s
    ELSE <<Head(s)>> \o Insert(Tail(s), x)

\* sorted(seq)
RECURSIVE sorted(_)
sorted(s) == IF s = <<>> THEN <<>> ELSE Insert(sorted(SubSeq(s, 1, Len(s) - 1)), s[Len(s)])

\* ---------------------------------------------------------------------------
\* rescale: the closure keeps min1, max1, min2, max2; min() of an empty
\* collection raises ValueError
\* ---------------------------------------------------------------------------
NoClosure == [exc |-> "unbound", min1 |-> 0, max1 |-> 0, min2 |-> 0, max2 |-> 0]

\* variant: takes the first and last sample for the minimum and maximum
rescale_first_last(range1, range2) ==
    IF range1 = <<>> \/ range2 = <<>>
    THEN [NoClosure EXCEPT !.exc = "ValueError"]
    ELSE [exc |-> "", min1 |-> range1[1], max1 |-> range1[Len(range1)],
                      min2 |-> range2[1], max2 |-> range2[Len(range2)]]

rescale(range1, range2) ==
    IF range1 = <<>> \/ range2 = <<>>
    THEN [NoClosure EXCEPT !.exc = "ValueError"]
    ELSE [exc |-> "", min1 |-> min(range1), max1 |-> max(range1),
                      min2 |-> min(range2), max2 |-> max(range2)]

Value(x) == [exc |-> "", val |-> x]
Raise(e) == [exc |-> e, val |-> FZero]

\* variant: measures the value from max1, so the mapping runs backwards
resize_reversed(m, value) ==
    IF m.max1 - m.min1 = 0 THEN Raise("ZeroDivisionError")
    ELSE Value(FAdd(TrueDiv((m.max1 - value) * (m.max2 - m.min2), m.max1 - m.min1),
                    FFromInt(m.min2)))

\* variant: clamps the value into [min1, max1] first
resize_clamped(m, value) ==
    IF m.max1 - m.min1 = 0 THEN Raise("ZeroDivisionError")
    ELSE LET v == IF value < m.min1 THEN m.min1 ELSE IF value > m.max1 THEN m.max1 ELSE value
         IN  Value(FAdd(TrueDiv((v - m.min1) * (m.max2 - m.min2), m.max1 - m.min1),
                        FFromInt(m.min2)))

\* resize(value) of the closure m; int / 0 raises ZeroDivisionError
resize(m, value) ==
    IF m.max1 - m.min1 = 0 THEN Raise("ZeroDivisionError")
    ELSE Value(FAdd(TrueDiv((value - m.min1) * (m.max2 - m.min2), m.max1 - m.min1),
                    FFromInt(m.min2)))

\* ---------------------------------------------------------------------------
\* visualize
\* ---------------------------------------------------------------------------
\* pos_tags is None or a collection of tags
NoFilter == [none |-> TRUE, tags |-> {}]
Tags(S) == [none |-> FALSE, tags |-> S]

\* variant: ignores the whitelist
filter_fd_keep_all(fd, pos_tags) == fd

\* lines 79-80: the filtered dict is a new object bound to the local name fd
filter_fd(fd, pos_tags) ==
    IF ~pos_tags.none
    THEN LET keep(e) == e.t.pos \in pos_tags.tags IN SelectSeq(fd, keep)
    ELSE fd

\* variant: deletes the filtered-out entries from the caller's dict
caller_fd_in_place(fd, pos_tags) ==
    IF ~pos_tags.none
    THEN LET keep(e) == e.t.pos \in pos_tags.tags IN SelectSeq(fd, keep)
    ELSE fd

\* the caller's dict after the call: line 80 rebinds the local name only
caller_fd(fd, pos_tags) == fd

\* line 81: {pos.tag: color.hex for pos, color in COLOR.items()}; a later
\* entry with the same tag replaces an earlier one
RECURSIVE dict_of(_, _)
dict_of(table, n) ==
    IF n = 0 THEN [tag \in {} |-> ""]
    ELSE (table[n].pos.tag :> table[n].color.hex) @@ dict_of(table, n - 1)

color_by_tag(table) == dict_of(table, Len(table))

values(fd) == [i \in 1..Len(fd) |-> fd[i].f]

Html(fonts) == [exc |-> "", html |-> fonts]
Traceback(e) == [exc |-> e, html |-> <<>>]

\* lines 84-92: one <font> element per item, in the dict's order; the first
\* failing lookup or division ends the pass
RECURSIVE join_fonts(_, _, _, _)
join_fonts(items, color, font_size, done) ==
    IF items = <<>> THEN Html(done)
    ELSE LET t == Head(items).t
             f == Head(items).f
         IN  IF t.pos \notin DOMAIN color THEN Traceback("KeyError")
             ELSE LET size == resize(font_size, f)
                  IN  IF size.exc # "" THEN Traceback(size.exc)
                      ELSE join_fonts(Tail(items), color, font_size,
                                      Append(done, [color |-> color[t.pos],
                                                    title |-> <<t.lemma, t.pos, f>>,
                                                    size  |-> size.val,
                                                    text  |-> t.lemma]))

visualize(fd_arg, pos_tags, table) ==
    LET fd          == filter_fd(fd_arg, pos_tags)
        color       == color_by_tag(table)
        frequencies == sorted(values(fd))
        font_size   == rescale(frequencies, range(75, 351))
    IN  IF font_size.exc # "" THEN Traceback(font_size.exc)
        ELSE join_fonts(fd, color, font_size, <<>>)

\* ---------------------------------------------------------------------------
\* Inputs
\* ---------------------------------------------------------------------------
\* lexical items; the tag ZZZ has no entry in COLOR
Terms == { [lemma |-> "dog", pos |-> "NOUN"], [lemma |-> "cat", pos |-> "NOUN"],
           [lemma |-> "run", pos |-> "VERB"], [lemma |-> "foo", pos |-> "ZZZ"] }
TagSet == {t.pos : t \in Terms}
Freqs == {1, 2, 4}
Items == {[t |-> t, f |-> f] : t \in Terms, f \in Freqs}

\* frequency distributions: dicts, so no term occurs twice
FDs == UNION { { s \in [1..n -> Items] : \A i, j \in 1..n : s[i].t = s[j].t => i = j }
               : n \in 0..MaxTerms }
Filters == {NoFilter} \cup {Tags(S) : S \in SUBSET TagSet}

SrcVals == {0, 1, 3}
TgtVals == {0, 75, 350}
Range1s == UNION {[1..n -> SrcVals] : n \in 0..MaxLen1}
Range2s == UNION {[1..n -> TgtVals] : n \in 0..MaxLen2}
CallVals == {-1, 0, 1, 3, 4}

\* ---------------------------------------------------------------------------
\* State
\* ---------------------------------------------------------------------------
VARIABLES
    pc,         \* position of the caller of visualize
    fd,         \* the caller's frequency distribution
    pos_tags,   \* the pos_tags argument of the last call
    COLOR,      \* the module-level table
    result,     \* what the last call of visualize returned or raised
    rpc,        \* position of the user of rescale
    range1,     \* arguments of rescale
    range2,
    font_size,  \* the closure rescale returned
    sizes       \* value -> outcome of resize(value), for the calls made

vars == <<pc, fd, pos_tags, COLOR, result, rpc, range1, range2, font_size, sizes>>
renderVars == <<pc, fd, pos_tags, COLOR, result>>
rescaleVars == <<rpc, range1, range2, font_size, sizes>>

NoResult == [exc |-> "none", html |-> <<>>]
NoSizes == [v \in {} |-> Raise("")]

\* ---- the rendering loop: lines 153-158 ----
Init ==
    /\ pc = "idle" /\ fd = <<>> /\ pos_tags = NoFilter
    /\ COLOR = ColorTable /\ result = NoResult
    /\ rpc = "off" /\ range1 = <<>> /\ range2 = <<>>
    /\ font_size = NoClosure /\ sizes = NoSizes

\* fdist(directory, ...) hands over a distribution
Fdist ==
    /\ pc = "idle"
    /\ \E d \in FDs : fd' = d
    /\ pc' = "ready"
    /\ UNCHANGED <<pos_tags, COLOR, result, rescaleVars>>

\* visualize(fd, pos_tags=...)
Visualize ==
    /\ pc = "ready"
    /\ \E p \in Filters :
         /\ pos_tags' = p
         /\ result' = visualize(fd, p, COLOR)
         /\ fd' = caller_fd(fd, p)
    /\ pc' = "returned"
    /\ UNCHANGED <<COLOR, rescaleVars>>

\* the caller is done with this distribution and goes on to the next one
NextDirectory ==
    /\ pc = "returned"
    /\ pc' = "idle" /\ fd' = <<>> /\ pos_tags' = NoFilter /\ result' = NoResult
    /\ UNCHANGED <<COLOR, rescaleVars>>

Next == Fdist \/ Visualize \/ NextDirectory

Spec == Init /\ [][Next]_vars

\* ---- rescale on its own: any two collections, any values ----
InitRescale ==
    /\ pc = "off" /\ fd = <<>> /\ pos_tags = NoFilter
    /\ COLOR = ColorTable /\ result = NoResult
    /\ rpc = "start" /\ range1 \in Range1s /\ range2 \in Range2s
    /\ font_size = NoClosure /\ sizes = NoSizes

Rescale ==
    /\ rpc = "start"
    /\ font_size' = rescale(range1, range2)
    /\ rpc' = IF font_size'.exc # "" THEN "raised" ELSE "built"
    /\ UNCHANGED <<range1, range2, sizes, renderVars>>

Resize ==
    /\ rpc = "built"
    /\ Cardinality(DOMAIN sizes) < MaxCalls
    /\ \E v \in CallVals \ DOMAIN sizes :
         sizes' = (v :> resize(font_size, v)) @@ sizes
    /\ UNCHANGED <<rpc, range1, range2, font_size, renderVars>>

NextRescale == Rescale \/ Resize

SpecRescale == InitRescale /\ [][NextRescale]_vars

\* ---------------------------------------------------------------------------
\* Properties
\* ---------------------------------------------------------------------------
SetMin(S) == CHOOSE m \in S : \A e \in S : m <= e
SetMax(S) == CHOOSE m \in S : \A e \in S : e <= m

Returned == pc = "returned"
Survives(e) == pos_tags.none \/ e.t.pos \in pos_tags.tags
Survivors == SelectSeq(fd, Survives)
Removed == {fd[i] : i \in {j \in 1..Len(fd) : ~Survives(fd[j])}}
SurvivingFreqs == {Survivors[i].f : i \in 1..Len(Survivors)}
KnownTags == {ColorTable[i].pos.tag : i \in 1..Len(ColorTable)}
AllKnown == \A i \in 1..Len(Survivors) : Survivors[i].t.pos \in KnownTags

\* C1: rendering with an explicitly empty set of allowed categories gives the
\* same result as rendering with no filter at all.
C1_EmptySetSameAsNoFilter ==
    (Returned /\ pos_tags = Tags({})) => result = visualize(fd, NoFilter, COLOR)

\* C2: a distribution that is empty, or empty after filtering, renders to an
\* empty sequence of descriptors without an error.
C2_EmptyRendersEmpty ==
    (Returned /\ Survivors = <<>>) => (result.exc = "" /\ result.html = <<>>)

\* C3: when every surviving term has the same frequency the rendering does
\* not crash on a division by the zero width of the source range.
C3_DegenerateDoesNotCrash ==
    (Returned /\ Survivors # <<>> /\ Cardinality(SurvivingFreqs) = 1)
        => result.exc # "ZeroDivisionError"

\* C5: with at least two distinct surviving frequencies every descriptor's
\* size is ((f - fmin) * (350 - 75)) / (fmax - fmin) + 75 over the minimum
\* and maximum frequency of the surviving terms: 350 at fmax, 75 at fmin and
\* within 75..350 everywhere.
C5_SizeOverFilteredRange ==
    (Returned /\ Cardinality(SurvivingFreqs) >= 2 /\ AllKnown) =>
        LET fmin == SetMin(SurvivingFreqs)
            fmax == SetMax(SurvivingFreqs)
        IN  /\ result.exc = ""
            /\ Len(result.html) = Len(Survivors)
            /\ \A k \in 1..Len(Survivors) :
                 LET f    == Survivors[k].f
                     size == result.html[k].size
                 IN  /\ size = FAdd(TrueDiv((f - fmin) * (350 - 75), fmax - fmin),
                                    FFromInt(75))
                     /\ f = fmax => size = FFromInt(350)
                     /\ f = fmin => size = FFromInt(75)
                     /\ FLe(FFromInt(75), size) /\ FLe(size, FFromInt(350))

\* a rendering in which a term with a frequency above the surviving maximum
\* was filtered out
C5_Witness ==
    /\ Returned /\ result.exc = "" /\ Cardinality(SurvivingFreqs) >= 2
    /\ \E e \in Removed : e.f > SetMax(SurvivingFreqs)

\* C6: with a non-empty allowed set the output has exactly one descriptor per
\* term whose category is allowed, in the distribution's order, and no other.
C6_FilterRestricts ==
    (Returned /\ ~pos_tags.none /\ pos_tags.tags # {} /\ AllKnown) =>
        /\ result.exc = ""
        /\ Len(result.html) = Len(Survivors)
        /\ \A k \in 1..Len(Survivors) :
             result.html[k].title = <<Survivors[k].t.lemma, Survivors[k].t.pos, Survivors[k].f>>

\* C7: rendering fails with the unknown-category error exactly when a
\* surviving term has a category without an entry in the style table.
C7_UnknownCategoryExactly ==
    Returned => (result.exc = "KeyError" <=> ~AllKnown)

Built == rpc = "built"
SrcMin == SetMin(Elems(range1))
SrcMax == SetMax(Elems(range1))
TgtMin == SetMin(Elems(range2))
TgtMax == SetMax(Elems(range2))
Called == DOMAIN sizes
Slope(x1, x2) == FDivInt(FSub(sizes[x2].val, sizes[x1].val), x2 - x1)
Exact(x) == ((x - SrcMin) * (TgtMax - TgtMin)) % (SrcMax - SrcMin) = 0

\* C4: when range1 holds two distinct values the mapper sends min(range1) to
\* min(range2) and max(range1) to max(range2) exactly, whatever the order,
\* duplicates or interior samples of the two collections.
C4_Endpoints ==
    (Built /\ Cardinality(Elems(range1)) >= 2) =>
        /\ SrcMin \in Called => sizes[SrcMin] = Value(FFromInt(TgtMin))
        /\ SrcMax \in Called => sizes[SrcMax] = Value(FFromInt(TgtMax))

\* both collections unsorted, range1 with an interior sample, both ends mapped
C4_Witness ==
    /\ Built /\ Len(range1) = 3 /\ Len(range2) = 2
    /\ range1[1] > range1[2] /\ range1[2] < range1[3] /\ range1[3] < range1[1]
    /\ range2[1] > range2[2]
    /\ {SrcMin, SrcMax} \subseteq Called

\* C8: for a source range a < b and a target range c < d the mapper is
\* non-decreasing on all values, inside or outside [a, b].
C8_Monotone ==
    (Built /\ range1 # <<>> /\ range2 # <<>> /\ SrcMin < SrcMax /\ TgtMin < TgtMax) =>
        \A x1, x2 \in Called :
            x1 < x2 => /\ sizes[x1].exc = "" /\ sizes[x2].exc = ""
                       /\ FLe(sizes[x1].val, sizes[x2].val)

\* values below, inside and above a source range of width 3
C8_Witness ==
    /\ Built /\ SrcMax - SrcMin = 3 /\ TgtMin < TgtMax
    /\ \E x1, x2, x3 \in Called : x1 < SrcMin /\ SrcMin < x2 /\ x2 < SrcMax /\ SrcMax < x3

\* C9 as stated: for any three values x1 < x2 < x3 in a non-degenerate source
\* range the slope between the first two equals the slope between the last two.
C9_EqualSlopes ==
    (Built /\ Cardinality(Elems(range1)) >= 2) =>
        \A x1, x2, x3 \in Called :
            (SrcMin <= x1 /\ x1 < x2 /\ x2 < x3 /\ x3 <= SrcMax)
                => Slope(x1, x2) = Slope(x2, x3)

\* C9: the two slopes are equal, and equal to (targetMax - targetMin) /
\* (sourceMax - sourceMin), for any three values inside or outside the source
\* range whose exact images are integers; values outside are not clamped.
C9_EqualSlopesWhenExact ==
    (Built /\ Cardinality(Elems(range1)) >= 2) =>
        \A x1, x2, x3 \in Called :
            (x1 < x2 /\ x2 < x3 /\ Exact(x1) /\ Exact(x2) /\ Exact(x3))
                => /\ Slope(x1, x2) = Slope(x2, x3)
                   /\ Slope(x1, x2) = TrueDiv(TgtMax - TgtMin, SrcMax - SrcMin)

\* three exact values, the first below and the last above the source range
C9_Witness ==
    /\ Built /\ Cardinality(Elems(range1)) >= 2 /\ TgtMin < TgtMax
    /\ SrcMax - SrcMin >= 2
    /\ \E x1, x2, x3 \in Called :
         /\ x1 < SrcMin /\ SrcMin <= x2 /\ x2 <= SrcMax /\ SrcMax < x3
         /\ Exact(x1) /\ Exact(x2) /\ Exact(x3)
====
